---------------------------- MODULE Spec2Model ----------------------------
(***************************************************************************)
(* Model of the Axiom kernel: the metadata log (log/mod.rs), the table     *)
(* state machine (state/mod.rs), the invariant engine (invariants/mod.rs)  *)
(* and the replay engine (replay/mod.rs).                                  *)
(*                                                                         *)
(* Each component has its own specification over the shared variables:     *)
(*   LogSpec      MetadataLog: append / replay / current_version           *)
(*   ConcSpec     two callers that read current_version, then append       *)
(*   MachineSpec  TableStateMachine: new / apply                           *)
(*   ReplaySpec   replay_table_state, one loop iteration per step          *)
(*   EngineSpec   InvariantEngine: register / evaluate                     *)
(*   DriftSpec    detect_drift and the reads of the report it made         *)
(*   ReportSpec   a caller-built report: its reads and policy evaluation   *)
(*   SimSpec      simulate_table, statement by statement                   *)
(***************************************************************************)
EXTENDS Integers, Sequences, FiniteSets, TLC

VARIABLES
    events,         \* MetadataLog.events (VecDeque<TableEvent>), front first
    logOp,          \* the last call on the log: its argument, its return value
                    \* and the stored events as they were before the call
    appended,       \* history: the arguments of the appends that continued the
                    \* sequence 1, 2, ..., in the order the calls were made
    pc,             \* ConcSpec: each caller's position
    observed,       \* ConcSpec: the current_version each caller last read
    outcome,        \* ConcSpec: each caller's last append (event and result)
    state,          \* TableStateMachine.state of a machine driven directly
    smOp,           \* the last call on that machine
    invariants,     \* InvariantEngine.invariants (registration order)
    rpc,            \* replay_table_state: "idle" or "loop"
    pos,            \* replay_table_state: index of the iterator's next event
    state_machine,  \* replay_table_state: its local machine's state
    current_state,  \* replay_table_state: its local current_state
    replayRet,      \* the last value returned by replay_table_state
    evaluated,      \* replay_table_state: the triples it has passed to evaluate
    engineOp,       \* the last call on an InvariantEngine driven directly
    expected_state, \* detect_drift: the expected TableState it is given
    actual_state,   \* the IcebergTableState the catalog adapter reports
    report,         \* a DriftReport
    reportOp,       \* the last call that made or read the report
    policy,         \* simulate_table: the PolicyConfig it is given
    simPc,          \* simulate_table: the statement it is at
    simLocals,      \* simulate_table: the locals bound so far
    simRet,         \* the value simulate_table returned, once it has
    simRuns         \* the number of the current run of simulate_table

vars == <<events, logOp, appended, pc, observed, outcome, state, smOp,
          invariants, rpc, pos, state_machine, current_state, replayRet,
          evaluated,
          engineOp, expected_state, actual_state, report, reportOp,
          policy, simPc, simLocals, simRet, simRuns>>

logVars    == <<events, logOp, appended>>
concVars   == <<pc, observed, outcome>>
smVars     == <<state, smOp>>
replayVars == <<invariants, rpc, pos, state_machine, current_state, replayRet,
               evaluated>>
engineVars == <<engineOp>>
driftVars  == <<expected_state, actual_state, report, reportOp>>
simVars    == <<policy, simPc, simLocals, simRet, simRuns>>
laterVars  == <<engineVars, driftVars, simVars>>

(***************************************************************************)
(* Bounds and input sets                                                   *)
(***************************************************************************)
MaxLog == 3
MaxReplayLog == 3
MaxInvariants == 2
MaxFindings == 3
MaxRuns == 2

EventType == {"TableCreated", "SchemaUpdated", "SnapshotAdded", "SnapshotRemoved"}
TableState == {"Created", "Active", "Mutating"}
TableIds == {"t1"}
Payloads == {<<>>, <<1, 2, 3>>}
Versions == 0..(MaxLog + 1)
TableEvent == [table_id : TableIds, version : Versions,
               event_type : EventType, payload : Payloads]
Callers == {"c1", "c2"}

None == [tag |-> "None"]
Some(v) == [tag |-> "Some", value |-> v]
Ok == [tag |-> "Ok"]
OkOf(v) == [tag |-> "Ok", value |-> v]
VersionConflict(e, a) == [tag |-> "VersionConflict", expected |-> e, actual |-> a]

(***************************************************************************)
(* MetadataLog (log/mod.rs)                                                *)
(***************************************************************************)
back(evs) == IF Len(evs) = 0 THEN None ELSE Some(evs[Len(evs)])

push_back(evs, event) == Append(evs, event)

push_front(evs, event) == <<event>> \o evs

new_log == <<>>

\* A slip in the comparison: only versions ahead of the expected one conflict.
append_accepts_stale(evs, event) ==
    LET expected == IF back(evs).tag = "Some" THEN back(evs).value.version + 1 ELSE 1
    IN  IF event.version > expected
        THEN [events |-> evs, ret |-> VersionConflict(expected, event.version)]
        ELSE [events |-> push_back(evs, event), ret |-> Ok]

\* A slip in the insertion: the accepted event goes to the front.
append_at_front(evs, event) ==
    LET expected == IF back(evs).tag = "Some" THEN back(evs).value.version + 1 ELSE 1
    IN  IF event.version # expected
        THEN [events |-> evs, ret |-> VersionConflict(expected, event.version)]
        ELSE [events |-> push_front(evs, event), ret |-> Ok]

append(evs, event) ==
    LET expected == IF back(evs).tag = "Some" THEN back(evs).value.version + 1 ELSE 1
    IN  IF event.version # expected
        THEN [events |-> evs, ret |-> VersionConflict(expected, event.version)]
        ELSE [events |-> push_back(evs, event), ret |-> Ok]

replay(evs) == [i \in 1..Len(evs) |-> evs[i]]

\* A slip in the end read: the version of the first event.
current_version_of_front(evs) == IF Len(evs) = 0 THEN 0 ELSE evs[1].version

current_version(evs) ==
    IF back(evs).tag = "Some" THEN back(evs).value.version ELSE 0

\* The next element of the history: an argument that continues 1, 2, ... is kept.
Submitted(hist, event) ==
    IF event.version = Len(hist) + 1 THEN Append(hist, event) ELSE hist

InitLog ==
    /\ events = new_log
    /\ logOp = [op |-> "new"]
    /\ appended = <<>>

LogAppend(event) ==
    /\ Len(events) < MaxLog \/ append(events, event).ret # Ok
    /\ events' = append(events, event).events
    /\ logOp' = [op |-> "append", event |-> event,
                 ret |-> append(events, event).ret, pre |-> events,
                 seq |-> (event.version = Len(appended) + 1)]
    /\ appended' = Submitted(appended, event)

LogReplay ==
    /\ logOp' = [op |-> "replay", ret |-> replay(events), pre |-> events,
                 last |-> IF logOp.op = "replay" THEN Some(logOp.ret) ELSE None]
    /\ UNCHANGED <<events, appended>>

LogCurrentVersion ==
    /\ logOp' = [op |-> "current_version", ret |-> current_version(events),
                 pre |-> events]
    /\ UNCHANGED <<events, appended>>

(***************************************************************************)
(* Two callers of one log.  append takes &mut self (log/mod.rs:46), so a   *)
(* call has the log to itself from its version check to its push_back: it  *)
(* is one step.  What a caller read from current_version() earlier may be  *)
(* stale by the time it appends.                                           *)
(***************************************************************************)
InitConc ==
    /\ pc = [c \in Callers |-> "idle"]
    /\ observed = [c \in Callers |-> 0]
    /\ outcome = [c \in Callers |-> None]

\* The event a caller submits: each caller writes its own payload.
CallerPayload == [c1 |-> <<>>, c2 |-> <<1, 2, 3>>]

CallerEvents(c, version) ==
    {e \in TableEvent : e.version = version /\ e.payload = CallerPayload[c]}

Observe(c) ==
    /\ pc[c] = "idle"
    /\ LogCurrentVersion
    /\ observed' = [observed EXCEPT ![c] = current_version(events)]
    /\ pc' = [pc EXCEPT ![c] = "observed"]
    /\ UNCHANGED outcome

Attempt(c) ==
    /\ pc[c] = "observed"
    /\ \E event \in CallerEvents(c, observed[c] + 1) :
          /\ LogAppend(event)
          /\ outcome' = [outcome EXCEPT ![c] =
                            [event |-> event, ret |-> append(events, event).ret]]
    /\ pc' = [pc EXCEPT ![c] = "done"]
    /\ UNCHANGED observed

\* The caller drops what it read and what it was told.
Return(c) ==
    /\ pc[c] = "done"
    /\ pc' = [pc EXCEPT ![c] = "idle"]
    /\ observed' = [observed EXCEPT ![c] = 0]
    /\ outcome' = [outcome EXCEPT ![c] = None]
    /\ UNCHANGED logVars

(***************************************************************************)
(* TableStateMachine (state/mod.rs)                                        *)
(***************************************************************************)
IllegalTransition(message) == [tag |-> "IllegalTransition", message |-> message]

\* derive(Debug) on the two enums prints the variant's identifier.
DebugEventType(evt) ==
    CASE evt = "TableCreated" -> "TableCreated"
      [] evt = "SchemaUpdated" -> "SchemaUpdated"
      [] evt = "SnapshotAdded" -> "SnapshotAdded"
      [] evt = "SnapshotRemoved" -> "SnapshotRemoved"

DebugTableState(st) ==
    CASE st = "Created" -> "Created"
      [] st = "Active" -> "Active"
      [] st = "Mutating" -> "Mutating"

new_machine == "Created"

\* A slip in the third arm: a mutation-class event does not close a mutation.
apply_stays_mutating(st, event) ==
    LET evt == event.event_type
    IN  CASE st = "Created" /\ evt = "TableCreated" ->
               [state |-> "Active", ret |-> Ok]
          [] st = "Active" /\ evt \in {"SchemaUpdated", "SnapshotAdded", "SnapshotRemoved"} ->
               [state |-> "Mutating", ret |-> Ok]
          [] st = "Mutating" /\ evt \in {"SchemaUpdated", "SnapshotAdded", "SnapshotRemoved"} ->
               [state |-> "Mutating", ret |-> Ok]
          [] OTHER ->
               [state |-> st,
                ret |-> IllegalTransition("cannot apply " \o DebugEventType(evt)
                                          \o " while in " \o DebugTableState(st))]

\* A slip in the last arm: the rejected call leaves a reset machine and
\* reports the state it reset to.
apply_resets_on_error(st, event) ==
    LET evt == event.event_type
    IN  CASE st = "Created" /\ evt = "TableCreated" ->
               [state |-> "Active", ret |-> Ok]
          [] st = "Active" /\ evt \in {"SchemaUpdated", "SnapshotAdded", "SnapshotRemoved"} ->
               [state |-> "Mutating", ret |-> Ok]
          [] st = "Mutating" /\ evt \in {"SchemaUpdated", "SnapshotAdded", "SnapshotRemoved"} ->
               [state |-> "Active", ret |-> Ok]
          [] OTHER ->
               [state |-> "Created",
                ret |-> IllegalTransition("cannot apply " \o DebugEventType(evt)
                                          \o " while in " \o DebugTableState("Created"))]

\* A slip in the second arm: a mutation-class event is also taken in Created.
apply_mutates_from_created(st, event) ==
    LET evt == event.event_type
    IN  CASE st = "Created" /\ evt = "TableCreated" ->
               [state |-> "Active", ret |-> Ok]
          [] st \in {"Created", "Active"}
                /\ evt \in {"SchemaUpdated", "SnapshotAdded", "SnapshotRemoved"} ->
               [state |-> "Mutating", ret |-> Ok]
          [] st = "Mutating" /\ evt \in {"SchemaUpdated", "SnapshotAdded", "SnapshotRemoved"} ->
               [state |-> "Active", ret |-> Ok]
          [] OTHER ->
               [state |-> st,
                ret |-> IllegalTransition("cannot apply " \o DebugEventType(evt)
                                          \o " while in " \o DebugTableState(st))]

\* A slip in the table: the arm for Mutating is missing, so a mutation never
\* ends.
apply_without_mutating_arm(st, event) ==
    LET evt == event.event_type
    IN  CASE st = "Created" /\ evt = "TableCreated" ->
               [state |-> "Active", ret |-> Ok]
          [] st = "Active" /\ evt \in {"SchemaUpdated", "SnapshotAdded", "SnapshotRemoved"} ->
               [state |-> "Mutating", ret |-> Ok]
          [] OTHER ->
               [state |-> st,
                ret |-> IllegalTransition("cannot apply " \o DebugEventType(evt)
                                          \o " while in " \o DebugTableState(st))]

apply(st, event) ==
    LET evt == event.event_type
    IN  CASE st = "Created" /\ evt = "TableCreated" ->
               [state |-> "Active", ret |-> Ok]
          [] st = "Active" /\ evt \in {"SchemaUpdated", "SnapshotAdded", "SnapshotRemoved"} ->
               [state |-> "Mutating", ret |-> Ok]
          [] st = "Mutating" /\ evt \in {"SchemaUpdated", "SnapshotAdded", "SnapshotRemoved"} ->
               [state |-> "Active", ret |-> Ok]
          [] OTHER ->
               [state |-> st,
                ret |-> IllegalTransition("cannot apply " \o DebugEventType(evt)
                                          \o " while in " \o DebugTableState(st))]

InitMachine ==
    /\ state = new_machine
    /\ smOp = [op |-> "new"]

MachineNew ==
    /\ state' = new_machine
    /\ smOp' = [op |-> "new"]

MachineApply(event) ==
    /\ state' = apply(state, event).state
    /\ smOp' = [op |-> "apply", event |-> event,
                ret |-> apply(state, event).ret, pre |-> state]

MachineCurrentState ==
    /\ smOp' = [op |-> "current_state", ret |-> state, pre |-> state]
    /\ UNCHANGED state

(***************************************************************************)
(* InvariantEngine (invariants/mod.rs).  A rule is named by its type; the  *)
(* first is the one the repository's tests register, the other two fail on *)
(* transitions the state machine accepts.                                  *)
(***************************************************************************)
Pass == [tag |-> "Pass"]
Fail(reason) == [tag |-> "Fail", reason |-> reason]
InvariantViolation(invariant, reason) ==
    [tag |-> "InvariantViolation", invariant |-> invariant, reason |-> reason]

InvariantRules == {"NoMutateFromCreated", "NoSnapshotRemoval", "NoReactivation"}

name(rule) ==
    CASE rule = "NoMutateFromCreated" -> "no-mutate-from-created"
      [] rule = "NoSnapshotRemoval" -> "no-snapshot-removal"
      [] rule = "NoReactivation" -> "no-reactivation"

validate(rule, previous, event, next) ==
    CASE rule = "NoMutateFromCreated" ->
             IF previous = "Created" /\ next = "Mutating"
             THEN Fail("cannot mutate from CREATED") ELSE Pass
      [] rule = "NoSnapshotRemoval" ->
             IF event.event_type = "SnapshotRemoved"
             THEN Fail("snapshots are never removed") ELSE Pass
      [] rule = "NoReactivation" ->
             IF previous = "Mutating" /\ next = "Active"
             THEN Fail("a mutation never completes") ELSE Pass

new_engine == <<>>

register(invs, rule) == Append(invs, rule)

\* A slip in the loop: a failure does not end it, the last failure is kept.
RECURSIVE evaluate_from_keeping_last(_, _, _, _, _)
evaluate_from_keeping_last(invs, i, previous_state, event, next_state) ==
    IF i > Len(invs)
    THEN [ret |-> Ok, validated |-> <<>>]
    ELSE LET result == validate(invs[i], previous_state, event, next_state)
             rest == evaluate_from_keeping_last(invs, i + 1, previous_state,
                                                event, next_state)
         IN  [ret |-> IF rest.ret # Ok \/ result = Pass THEN rest.ret
                      ELSE InvariantViolation(name(invs[i]), result.reason),
              validated |-> <<invs[i]>> \o rest.validated]

\* The loop from rule i on: what it returns, and the rules validate was
\* called on, in call order.
RECURSIVE evaluate_from(_, _, _, _, _)
evaluate_from(invs, i, previous_state, event, next_state) ==
    IF i > Len(invs)
    THEN [ret |-> Ok, validated |-> <<>>]
    ELSE LET result == validate(invs[i], previous_state, event, next_state)
             rest == evaluate_from(invs, i + 1, previous_state, event, next_state)
         IN  IF result = Pass
             THEN [ret |-> rest.ret, validated |-> <<invs[i]>> \o rest.validated]
             ELSE [ret |-> InvariantViolation(name(invs[i]), result.reason),
                   validated |-> <<invs[i]>>]

\* A slip in the loop's start: the first registered rule is passed over.
evaluate_skipping_first(invs, previous_state, event, next_state) ==
    evaluate_from(invs, 2, previous_state, event, next_state).ret

evaluate(invs, previous_state, event, next_state) ==
    evaluate_from(invs, 1, previous_state, event, next_state).ret

InitEngine ==
    engineOp = [op |-> "new"]

EngineRegister(rule) ==
    /\ Len(invariants) < MaxInvariants
    /\ invariants' = register(invariants, rule)
    /\ engineOp' = [op |-> "register", rule |-> rule]

EngineEvaluate(previous_state, event, next_state) ==
    /\ engineOp' = [op |-> "evaluate", previous_state |-> previous_state,
                    event |-> event, next_state |-> next_state,
                    ret |-> evaluate(invariants, previous_state, event, next_state),
                    validated |-> evaluate_from(invariants, 1, previous_state,
                                                event, next_state).validated]
    /\ UNCHANGED invariants

(***************************************************************************)
(* Drift detection (state/drift.rs) over the adapter's IcebergTableState   *)
(* (adapters/iceberg/mod.rs)                                               *)
(***************************************************************************)
TableUuids == {"9f7c8b31"}
SnapshotIds == {None, Some(-1), Some(0), Some(42)}
SchemaIds == {-2, -1, 0, 1}
IcebergTableState ==
    [table_uuid : TableUuids, current_snapshot_id : SnapshotIds,
     current_schema_id : SchemaIds]

DriftSeverity == {"Info", "Warning", "Critical"}
DriftType == {"UnexpectedMutation", "SchemaMismatch", "SnapshotMismatch"}
DriftFinding(drift_type, severity, message) ==
    [drift_type |-> drift_type, severity |-> severity, message |-> message]
DriftReport(findings) == [findings |-> findings]

\* The reports a caller can build: the findings field is public.
Findings ==
    {DriftFinding(t, sev, "drift") : t \in DriftType, sev \in DriftSeverity}

RECURSIVE FindingsOfLength(_)
FindingsOfLength(n) ==
    IF n = 0
    THEN {<<>>}
    ELSE {Append(fs, f) : fs \in FindingsOfLength(n - 1), f \in Findings}

Reports == {DriftReport(fs) : fs \in UNION {FindingsOfLength(n) : n \in 0..MaxFindings}}

is_clean(rep) == Len(rep.findings) = 0

severity_key(sev) ==
    CASE sev = "Info" -> 0
      [] sev = "Warning" -> 1
      [] sev = "Critical" -> 2

\* Iterator::max_by_key from position i on: a later element replaces the
\* running maximum when its key is not smaller.
RECURSIVE max_by_key_from(_, _, _)
max_by_key_from(severities, i, best) ==
    IF i > Len(severities)
    THEN best
    ELSE max_by_key_from(severities, i + 1,
             IF severity_key(severities[i]) >= severity_key(best)
             THEN severities[i] ELSE best)

\* A slip in the reduction: the first finding's severity is returned.
highest_severity_of_first(rep) ==
    IF Len(rep.findings) = 0 THEN None ELSE Some(rep.findings[1].severity)

highest_severity(rep) ==
    LET severities == [i \in 1..Len(rep.findings) |-> rep.findings[i].severity]
    IN  IF Len(severities) = 0
        THEN None
        ELSE Some(max_by_key_from(severities, 2, severities[1]))

\* A slip in rule 1: the expected state is not looked at.
detect_drift_in_any_state(expected_in, actual) ==
    LET rule1 == IF actual.current_snapshot_id.tag = "Some"
                 THEN <<DriftFinding("UnexpectedMutation", "Warning",
                          "table snapshot changed while expected state is ACTIVE")>>
                 ELSE <<>>
        rule2 == IF actual.current_schema_id < 0
                 THEN <<DriftFinding("SchemaMismatch", "Critical",
                          "invalid schema identifier detected")>>
                 ELSE <<>>
    IN  DriftReport(rule1 \o rule2)

\* A slip in rule 2: schema id 0 is taken for invalid too.
detect_drift_rejecting_zero(expected_in, actual) ==
    LET rule1 == IF expected_in = "Active" /\ actual.current_snapshot_id.tag = "Some"
                 THEN <<DriftFinding("UnexpectedMutation", "Warning",
                          "table snapshot changed while expected state is ACTIVE")>>
                 ELSE <<>>
        rule2 == IF actual.current_schema_id <= 0
                 THEN <<DriftFinding("SchemaMismatch", "Critical",
                          "invalid schema identifier detected")>>
                 ELSE <<>>
    IN  DriftReport(rule1 \o rule2)

\* A slip in the order of the rules: the schema is looked at first.
detect_drift_schema_first(expected_in, actual) ==
    LET rule1 == IF expected_in = "Active" /\ actual.current_snapshot_id.tag = "Some"
                 THEN <<DriftFinding("UnexpectedMutation", "Warning",
                          "table snapshot changed while expected state is ACTIVE")>>
                 ELSE <<>>
        rule2 == IF actual.current_schema_id < 0
                 THEN <<DriftFinding("SchemaMismatch", "Critical",
                          "invalid schema identifier detected")>>
                 ELSE <<>>
    IN  DriftReport(rule2 \o rule1)

detect_drift(expected_in, actual) ==
    LET rule1 == IF expected_in = "Active" /\ actual.current_snapshot_id.tag = "Some"
                 THEN <<DriftFinding("UnexpectedMutation", "Warning",
                          "table snapshot changed while expected state is ACTIVE")>>
                 ELSE <<>>
        rule2 == IF actual.current_schema_id < 0
                 THEN <<DriftFinding("SchemaMismatch", "Critical",
                          "invalid schema identifier detected")>>
                 ELSE <<>>
    IN  DriftReport(rule1 \o rule2)

InitDrift ==
    /\ expected_state = new_machine
    /\ actual_state = [table_uuid |-> "9f7c8b31", current_snapshot_id |-> None,
                       current_schema_id |-> 0]
    /\ report = DriftReport(<<>>)
    /\ reportOp = [op |-> "none"]

DetectDrift ==
    /\ report' = detect_drift(expected_state, actual_state)
    /\ reportOp' = [op |-> "detect_drift", ret |-> detect_drift(expected_state, actual_state)]
    /\ UNCHANGED <<expected_state, actual_state>>

IsClean ==
    /\ reportOp.op # "none"
    /\ reportOp' = [op |-> "is_clean", ret |-> is_clean(report)]
    /\ UNCHANGED <<expected_state, actual_state, report>>

HighestSeverity ==
    /\ reportOp.op # "none"
    /\ reportOp' = [op |-> "highest_severity", ret |-> highest_severity(report)]
    /\ UNCHANGED <<expected_state, actual_state, report>>

(***************************************************************************)
(* The policy engine (state/policy.rs) and its configuration               *)
(* (state/policy_config.rs)                                                *)
(***************************************************************************)
IntendedAction == {"Observe", "Alert", "Enforce"}
PolicyDecision(severity, action, reason) ==
    [severity |-> severity, action |-> action, reason |-> reason]
DecisionPlan(decisions) == [decisions |-> decisions]
is_empty(plan) == Len(plan.decisions) = 0

PolicyRule(severity, action, reason) ==
    [severity |-> severity, action |-> action, reason |-> reason]
PolicyConfig(rules) == [rules |-> rules]

\* A slip in the built-in table: critical drift only alerts.
default_policy_alerting_on_critical ==
    PolicyConfig(<<PolicyRule("Info", "Observe", "informational drift"),
                   PolicyRule("Warning", "Alert", "warning-level drift"),
                   PolicyRule("Critical", "Alert", "critical drift")>>)

default_policy ==
    PolicyConfig(<<PolicyRule("Info", "Observe", "informational drift"),
                   PolicyRule("Warning", "Alert", "warning-level drift"),
                   PolicyRule("Critical", "Enforce", "critical drift")>>)

\* A slip in the loop: one decision for the whole report, on its highest
\* severity.
evaluate_drift_policy_aggregating(rep) ==
    LET top == highest_severity(rep)
        matched ==
            CASE top.value = "Info" ->
                     <<"Observe", "informational drift, no action required">>
              [] top.value = "Warning" ->
                     <<"Alert", "warning-level drift, operator attention recommended">>
              [] top.value = "Critical" ->
                     <<"Enforce", "critical drift detected, enforcement would be required">>
    IN  DecisionPlan(IF top = None
                     THEN <<>>
                     ELSE <<PolicyDecision(top.value, matched[1], matched[2])>>)

\* A slip in the match: a warning is only observed.
evaluate_drift_policy_observing_warnings(rep) ==
    LET matched(finding) ==
            CASE finding.severity = "Info" ->
                     <<"Observe", "informational drift, no action required">>
              [] finding.severity = "Warning" ->
                     <<"Observe", "warning-level drift, operator attention recommended">>
              [] finding.severity = "Critical" ->
                     <<"Enforce", "critical drift detected, enforcement would be required">>
    IN  DecisionPlan([i \in 1..Len(rep.findings) |->
            PolicyDecision(rep.findings[i].severity,
                           matched(rep.findings[i])[1],
                           matched(rep.findings[i])[2])])

\* The loop pushes one decision for each finding, in the order of the report.
evaluate_drift_policy(rep) ==
    LET matched(finding) ==
            CASE finding.severity = "Info" ->
                     <<"Observe", "informational drift, no action required">>
              [] finding.severity = "Warning" ->
                     <<"Alert", "warning-level drift, operator attention recommended">>
              [] finding.severity = "Critical" ->
                     <<"Enforce", "critical drift detected, enforcement would be required">>
    IN  DecisionPlan([i \in 1..Len(rep.findings) |->
            PolicyDecision(rep.findings[i].severity,
                           matched(rep.findings[i])[1],
                           matched(rep.findings[i])[2])])

EvaluateDriftPolicy ==
    /\ reportOp.op # "none"
    /\ reportOp' = [op |-> "evaluate_drift_policy", ret |-> evaluate_drift_policy(report)]
    /\ UNCHANGED <<expected_state, actual_state, report>>

DefaultPolicy ==
    /\ reportOp.op # "none"
    /\ reportOp' = [op |-> "default_policy", ret |-> default_policy]
    /\ UNCHANGED <<expected_state, actual_state, report>>

(***************************************************************************)
(* replay_table_state (replay/mod.rs)                                      *)
(***************************************************************************)
Err(kind, source) == [tag |-> "Err", kind |-> kind, source |-> source]

\* The helper of the replay tests: event(version, event_type).
event_of(version, event_type) ==
    [table_id |-> "t1", version |-> version, event_type |-> event_type,
     payload |-> <<>>]

\* The logs replay can be given: built by append from an empty log.
RECURSIVE LogsOfLength(_)
LogsOfLength(n) ==
    IF n = 0
    THEN {new_log}
    ELSE {append(log, event_of(n, t)).events :
              log \in LogsOfLength(n - 1), t \in EventType}

ReplayLogs == UNION {LogsOfLength(n) : n \in 0..MaxReplayLog}

\* The engines replay can be given: built by register from an empty engine.
RECURSIVE EnginesOfLength(_)
EnginesOfLength(n) ==
    IF n = 0
    THEN {new_engine}
    ELSE {register(invs, rule) :
              invs \in EnginesOfLength(n - 1), rule \in InvariantRules}

Engines == UNION {EnginesOfLength(n) : n \in 0..MaxInvariants}

\* The arguments of one call of evaluate.
Triple(previous, event, next) ==
    [previous |-> previous, event |-> event, next |-> next]

\* A slip in the loop body: the rules are asked before the table's answer is
\* looked at, about the state a mutation would lead to.
replay_step_asking_rules_first(machine, current, invs, event) ==
    LET applied == apply(machine, event)
        next_state == IF applied.ret = Ok THEN applied.state ELSE "Mutating"
        verdict == evaluate(invs, current, event, next_state)
    IN  IF verdict # Ok
        THEN [state_machine |-> applied.state, current_state |-> current,
              ret |-> Some(Err("Invariant", verdict)),
              evaluated |-> Some(Triple(current, event, next_state))]
        ELSE IF applied.ret # Ok
        THEN [state_machine |-> applied.state, current_state |-> current,
              ret |-> Some(Err("State", applied.ret)),
              evaluated |-> Some(Triple(current, event, next_state))]
        ELSE [state_machine |-> next_state, current_state |-> next_state,
              ret |-> None,
              evaluated |-> Some(Triple(current, event, next_state))]

\* A slip in the loop body: the transition is never committed.
replay_step_without_commit(machine, current, invs, event) ==
    LET applied == apply(machine, event)
        next_state == applied.state
        verdict == evaluate(invs, current, event, next_state)
    IN  IF applied.ret # Ok
        THEN [state_machine |-> applied.state, current_state |-> current,
              ret |-> Some(Err("State", applied.ret)), evaluated |-> None]
        ELSE IF verdict # Ok
        THEN [state_machine |-> next_state, current_state |-> current,
              ret |-> Some(Err("Invariant", verdict)),
              evaluated |-> Some(Triple(current, event, next_state))]
        ELSE [state_machine |-> next_state, current_state |-> current,
              ret |-> None,
              evaluated |-> Some(Triple(current, event, next_state))]

\* A slip in the loop body: the engine's verdict is dropped, not propagated.
replay_step_ignoring_verdict(machine, current, invs, event) ==
    LET applied == apply(machine, event)
        next_state == applied.state
    IN  IF applied.ret # Ok
        THEN [state_machine |-> applied.state, current_state |-> current,
              ret |-> Some(Err("State", applied.ret)), evaluated |-> None]
        ELSE [state_machine |-> next_state, current_state |-> next_state,
              ret |-> None,
              evaluated |-> Some(Triple(current, event, next_state))]

\* One iteration of the loop: the locals after it, and the early return if
\* there is one.
replay_step(machine, current, invs, event) ==
    LET applied == apply(machine, event)
        next_state == applied.state
        verdict == evaluate(invs, current, event, next_state)
    IN  IF applied.ret # Ok
        THEN [state_machine |-> applied.state, current_state |-> current,
              ret |-> Some(Err("State", applied.ret)), evaluated |-> None]
        ELSE IF verdict # Ok
        THEN [state_machine |-> next_state, current_state |-> current,
              ret |-> Some(Err("Invariant", verdict)),
              evaluated |-> Some(Triple(current, event, next_state))]
        ELSE [state_machine |-> next_state, current_state |-> next_state,
              ret |-> None,
              evaluated |-> Some(Triple(current, event, next_state))]

\* What a finished run leaves: its value, the index of the event it stopped
\* at (one past the log for a full run) and, for a second or later run, the
\* same of the run before.
Returned(ret, at) ==
    [tag |-> "Some", ret |-> ret, at |-> at,
     prev |-> IF replayRet = None THEN None
              ELSE Some([ret |-> replayRet.ret, at |-> replayRet.at])]

InitReplayIdle ==
    /\ invariants = new_engine
    /\ rpc = "idle"
    /\ pos = 1
    /\ state_machine = new_machine
    /\ current_state = new_machine
    /\ replayRet = None
    /\ evaluated = {}

\* A slip before the loop: the machine of the run before is used again.
replay_locals_reusing_machine ==
    [state_machine |-> state_machine, current_state |-> state_machine]

\* The locals before the loop: a fresh machine and a clone of its state.
replay_locals ==
    [state_machine |-> new_machine, current_state |-> new_machine]

ReplayStart ==
    /\ rpc = "idle"
    /\ rpc' = "loop"
    /\ state_machine' = replay_locals.state_machine
    /\ current_state' = replay_locals.current_state
    /\ pos' = 1
    /\ evaluated' = {}
    /\ UNCHANGED <<invariants, replayRet>>

ReplayStep ==
    /\ rpc = "loop"
    /\ pos <= Len(replay(events))
    /\ LET step == replay_step(state_machine, current_state, invariants,
                               replay(events)[pos])
       IN  /\ state_machine' = step.state_machine
           /\ current_state' = step.current_state
           /\ evaluated' = IF step.evaluated = None
                           THEN evaluated
                           ELSE evaluated \cup {step.evaluated.value}
           /\ IF step.ret = None
              THEN /\ pos' = pos + 1
                   /\ UNCHANGED <<rpc, replayRet>>
              ELSE /\ rpc' = "idle"
                   /\ replayRet' = Returned(step.ret.value, pos)
                   /\ UNCHANGED pos
    /\ UNCHANGED invariants

ReplayReturn ==
    /\ rpc = "loop"
    /\ pos > Len(replay(events))
    /\ rpc' = "idle"
    /\ replayRet' = Returned(OkOf(current_state), pos)
    /\ UNCHANGED <<invariants, pos, state_machine, current_state, evaluated>>

(***************************************************************************)
(* The simulation pipeline (simulate.rs): replay, drift detection, policy  *)
(* evaluation                                                              *)
(***************************************************************************)
SimulationResult(expected, drift_report, decision_plan) ==
    [expected_state |-> expected, drift_report |-> drift_report,
     decision_plan |-> decision_plan]

\* replay_table_state as the single call simulate_table makes: the loop of
\* ReplayStep run from event i to the early return or the end of the log.
RECURSIVE replay_loop_from(_, _, _, _, _)
replay_loop_from(log, invs, i, machine, current) ==
    IF i > Len(log)
    THEN OkOf(current)
    ELSE LET step == replay_step(machine, current, invs, log[i])
         IN  IF step.ret # None
             THEN step.ret.value
             ELSE replay_loop_from(log, invs, i + 1, step.state_machine,
                                   step.current_state)

replay_table_state(log, invs) ==
    replay_loop_from(replay(log), invs, 1, new_machine, new_machine)

\* Policy evaluation against a configuration: each finding, in report order,
\* takes the action and the reason of the rule of its severity.
evaluate_drift_policy_with_config(rep, config) ==
    LET rule_for(sev) ==
            config.rules[CHOOSE i \in DOMAIN config.rules :
                             config.rules[i].severity = sev]
    IN  DecisionPlan([i \in 1..Len(rep.findings) |->
            PolicyDecision(rep.findings[i].severity,
                           rule_for(rep.findings[i].severity).action,
                           rule_for(rep.findings[i].severity).reason)])

\* The configurations simulate_table is given here: the default one, one that
\* only observes and one that always enforces, each with one rule for each
\* severity.
SimPolicies ==
    {default_policy,
     PolicyConfig(<<PolicyRule("Critical", "Observe", "audit only"),
                    PolicyRule("Warning", "Observe", "audit only"),
                    PolicyRule("Info", "Observe", "audit only")>>),
     PolicyConfig(<<PolicyRule("Info", "Enforce", "strict"),
                    PolicyRule("Warning", "Enforce", "strict"),
                    PolicyRule("Critical", "Enforce", "strict")>>)}

\* The catalog states simulate_table is given here.
SimActuals ==
    {actual \in IcebergTableState :
        /\ actual.current_snapshot_id \in {None, Some(42)}
        /\ actual.current_schema_id \in {-1, 0, 1}}

\* The engines simulate_table is given here: empty, or one rule.
SimEngines == EnginesOfLength(0) \cup EnginesOfLength(1)

\* A slip in statement 1: a failed replay falls back to a fresh table.
derive_expected_state_or_default(log, invs) ==
    LET replayed == replay_table_state(log, invs)
    IN  IF replayed.tag = "Err"
        THEN [return |-> None, expected_state |-> Some(new_machine), log |-> log]
        ELSE [return |-> None, expected_state |-> Some(replayed.value), log |-> log]

\* A slip in statement 1: the events are taken out of the log as they are
\* replayed.
derive_expected_state_draining(log, invs) ==
    LET replayed == replay_table_state(log, invs)
    IN  IF replayed.tag = "Err"
        THEN [return |-> Some(Err("Replay", replayed)), expected_state |-> None,
              log |-> new_log]
        ELSE [return |-> None, expected_state |-> Some(replayed.value),
              log |-> new_log]

\* Statement 1, replay_table_state(log, invariants)?: the local it binds, or
\* the error it returns with, and the log as the call leaves it (the log is
\* lent to the call by shared reference).
derive_expected_state(log, invs) ==
    LET replayed == replay_table_state(log, invs)
    IN  IF replayed.tag = "Err"
        THEN [return |-> Some(Err("Replay", replayed)), expected_state |-> None,
              log |-> log]
        ELSE [return |-> None, expected_state |-> Some(replayed.value),
              log |-> log]

sim_locals ==
    [expected_state |-> None, drift_report |-> None, decision_plan |-> None]

InitSim ==
    /\ policy = default_policy
    /\ simPc = "replay"
    /\ simLocals = sim_locals
    /\ simRet = None
    /\ simRuns = 1

SimReplay ==
    /\ simPc = "replay"
    /\ LET stage == derive_expected_state(events, invariants)
       IN  /\ events' = stage.log
           /\ IF stage.return # None
              THEN /\ simPc' = "done"
                   /\ simRet' = stage.return
                   /\ UNCHANGED simLocals
              ELSE /\ simPc' = "drift"
                   /\ simLocals' = [simLocals EXCEPT !.expected_state = stage.expected_state]
                   /\ UNCHANGED simRet
    /\ UNCHANGED <<policy, simRuns>>

SimDetectDrift ==
    /\ simPc = "drift"
    /\ simPc' = "policy"
    /\ simLocals' = [simLocals EXCEPT !.drift_report =
           Some(detect_drift(simLocals.expected_state.value, actual_state))]
    /\ UNCHANGED <<policy, simRet, simRuns>>

SimEvaluatePolicy ==
    /\ simPc = "policy"
    /\ simPc' = "return"
    /\ simLocals' = [simLocals EXCEPT !.decision_plan =
           Some(evaluate_drift_policy_with_config(simLocals.drift_report.value, policy))]
    /\ UNCHANGED <<policy, simRet, simRuns>>

SimReturn ==
    /\ simPc = "return"
    /\ simPc' = "done"
    /\ simRet' = Some(OkOf(SimulationResult(simLocals.expected_state.value,
                                            simLocals.drift_report.value,
                                            simLocals.decision_plan.value)))
    /\ UNCHANGED <<policy, simLocals, simRuns>>

\* The caller runs simulate_table once more, with the same arguments.
SimAgain ==
    /\ simPc = "done"
    /\ simRuns < MaxRuns
    /\ simPc' = "replay"
    /\ simLocals' = sim_locals
    /\ simRet' = None
    /\ simRuns' = simRuns + 1
    /\ UNCHANGED policy

InitLater == InitEngine /\ InitDrift /\ InitSim

LogNext ==
    \/ \E event \in TableEvent : LogAppend(event) /\ UNCHANGED <<concVars, smVars, replayVars, laterVars>>
    \/ LogReplay /\ UNCHANGED <<concVars, smVars, replayVars, laterVars>>
    \/ LogCurrentVersion /\ UNCHANGED <<concVars, smVars, replayVars, laterVars>>

LogInit == InitLog /\ InitConc /\ InitMachine /\ InitReplayIdle /\ InitLater

LogSpec == LogInit /\ [][LogNext]_vars

ConcNext ==
    \E c \in Callers :
        \/ Observe(c) /\ UNCHANGED <<smVars, replayVars, laterVars>>
        \/ Attempt(c) /\ UNCHANGED <<smVars, replayVars, laterVars>>
        \/ Return(c) /\ UNCHANGED <<smVars, replayVars, laterVars>>

ConcSpec == LogInit /\ [][ConcNext]_vars

MachineNext ==
    \/ MachineNew /\ UNCHANGED <<logVars, concVars, replayVars, laterVars>>
    \/ \E event \in TableEvent :
          MachineApply(event) /\ UNCHANGED <<logVars, concVars, replayVars, laterVars>>
    \/ MachineCurrentState /\ UNCHANGED <<logVars, concVars, replayVars, laterVars>>

MachineSpec == LogInit /\ [][MachineNext]_vars

EngineNext ==
    \/ \E rule \in InvariantRules :
          /\ EngineRegister(rule)
          /\ UNCHANGED <<logVars, concVars, smVars, rpc, pos, state_machine,
                         current_state, replayRet, evaluated, driftVars, simVars>>
    \/ \E previous_state \in TableState, event \in TableEvent, next_state \in TableState :
          /\ EngineEvaluate(previous_state, event, next_state)
          /\ UNCHANGED <<logVars, concVars, smVars, rpc, pos, state_machine,
                         current_state, replayRet, evaluated, driftVars, simVars>>

EngineSpec == LogInit /\ [][EngineNext]_vars

DriftInit ==
    /\ InitLog /\ InitConc /\ InitMachine /\ InitReplayIdle /\ InitEngine /\ InitSim
    /\ expected_state \in TableState
    /\ actual_state \in IcebergTableState
    /\ report = DriftReport(<<>>)
    /\ reportOp = [op |-> "none"]

DriftNext ==
    \/ DetectDrift /\ UNCHANGED <<logVars, concVars, smVars, replayVars, engineVars, simVars>>
    \/ IsClean /\ UNCHANGED <<logVars, concVars, smVars, replayVars, engineVars, simVars>>
    \/ HighestSeverity /\ UNCHANGED <<logVars, concVars, smVars, replayVars, engineVars, simVars>>

DriftSpec == DriftInit /\ [][DriftNext]_vars

\* A report built by the caller, as the tests of drift.rs and policy.rs do.
ReportInit ==
    /\ InitLog /\ InitConc /\ InitMachine /\ InitReplayIdle /\ InitEngine /\ InitSim
    /\ expected_state = new_machine
    /\ actual_state = [table_uuid |-> "9f7c8b31", current_snapshot_id |-> None,
                       current_schema_id |-> 0]
    /\ report \in Reports
    /\ reportOp = [op |-> "new"]

ReportNext ==
    \/ IsClean /\ UNCHANGED <<logVars, concVars, smVars, replayVars, engineVars, simVars>>
    \/ HighestSeverity /\ UNCHANGED <<logVars, concVars, smVars, replayVars, engineVars, simVars>>
    \/ EvaluateDriftPolicy /\ UNCHANGED <<logVars, concVars, smVars, replayVars, engineVars, simVars>>
    \/ DefaultPolicy /\ UNCHANGED <<logVars, concVars, smVars, replayVars, engineVars, simVars>>

ReportSpec == ReportInit /\ [][ReportNext]_vars

SimInit ==
    /\ events \in ReplayLogs
    /\ logOp = [op |-> "new"]
    /\ appended = events
    /\ InitConc /\ InitMachine /\ InitEngine
    /\ invariants \in SimEngines
    /\ rpc = "idle"
    /\ pos = 1
    /\ state_machine = new_machine
    /\ current_state = new_machine
    /\ replayRet = None
    /\ evaluated = {}
    /\ expected_state = new_machine
    /\ actual_state \in SimActuals
    /\ report = DriftReport(<<>>)
    /\ reportOp = [op |-> "none"]
    /\ policy \in SimPolicies
    /\ simPc = "replay"
    /\ simLocals = sim_locals
    /\ simRet = None
    /\ simRuns = 1

SimNext ==
    \/ SimReplay /\ UNCHANGED <<logOp, appended, concVars, smVars, replayVars, engineVars, driftVars>>
    \/ SimDetectDrift /\ UNCHANGED <<logVars, concVars, smVars, replayVars, engineVars, driftVars>>
    \/ SimEvaluatePolicy /\ UNCHANGED <<logVars, concVars, smVars, replayVars, engineVars, driftVars>>
    \/ SimReturn /\ UNCHANGED <<logVars, concVars, smVars, replayVars, engineVars, driftVars>>
    \/ SimAgain /\ UNCHANGED <<logVars, concVars, smVars, replayVars, engineVars, driftVars>>

SimSpec == SimInit /\ [][SimNext]_vars

ReplayInit ==
    /\ events \in ReplayLogs
    /\ logOp = [op |-> "new"]
    /\ appended = events
    /\ InitConc
    /\ InitMachine
    /\ invariants \in Engines
    /\ rpc = "idle"
    /\ pos = 1
    /\ state_machine = new_machine
    /\ current_state = new_machine
    /\ replayRet = None
    /\ evaluated = {}
    /\ InitLater

ReplayNext ==
    \/ ReplayStart /\ UNCHANGED <<logVars, concVars, smVars, laterVars>>
    \/ ReplayStep /\ UNCHANGED <<logVars, concVars, smVars, laterVars>>
    \/ ReplayReturn /\ UNCHANGED <<logVars, concVars, smVars, laterVars>>

ReplaySpec == ReplayInit /\ [][ReplayNext]_vars

(***************************************************************************)
(* Claims about the log                                                    *)
(***************************************************************************)
\* The version of the last stored event, 0 for none.
StoredVersion(log) == IF log = <<>> THEN 0 ELSE log[Len(log)].version

IsPrefix(s, t) == Len(s) <= Len(t) /\ \A i \in 1..Len(s) : s[i] = t[i]

\* C1: an append whose version is not current_version + 1 (not 1 on an empty
\* log) returns VersionConflict{expected = current_version + 1, actual =
\* e.version} and leaves the stored events and current_version as they were.
C1_ConflictLeavesLogUnchanged ==
    (logOp.op = "append" /\ logOp.event.version # StoredVersion(logOp.pre) + 1)
        => /\ logOp.ret = VersionConflict(StoredVersion(logOp.pre) + 1,
                                          logOp.event.version)
           /\ events = logOp.pre
           /\ current_version(events) = StoredVersion(logOp.pre)

\* Version 1 appended twice: the second call fails with expected 2, actual 1
\* and the log still holds exactly one event.
C1_Witness ==
    /\ logOp.op = "append"
    /\ logOp.ret = VersionConflict(2, 1)
    /\ Len(events) = 1

\* C2: after any sequence of append calls the stored versions, read in
\* order, are exactly 1, 2, ..., n.
C2_VersionsAreOneToN ==
    \A i \in 1..Len(events) : events[i].version = i

C2_Witness ==
    /\ Len(events) >= 2
    /\ logOp.op = "append"
    /\ logOp.ret.tag = "VersionConflict"
    /\ logOp.event.version \in {0, 1, 2, 4}

\* C3: events with versions 1, 2, ..., n appended in that order are all
\* accepted, replay then returns exactly them in the order appended, and a
\* second replay returns the same sequence.
C3_ReplayReturnsAppended ==
    /\ (logOp.op = "append" /\ logOp.seq) => logOp.ret = Ok
    /\ logOp.op = "replay" =>
          /\ logOp.ret = appended
          /\ logOp.last.tag = "Some" => logOp.last.value = logOp.ret

C3_Witness ==
    /\ logOp.op = "replay"
    /\ logOp.last.tag = "Some"
    /\ Len(logOp.ret) >= 2
    /\ logOp.ret[1].payload # logOp.ret[2].payload

\* C4: the log is append-only: what is stored before a step is a prefix of
\* what is stored after it, whatever the step (append, failed append,
\* replay, current_version).
C4_AppendOnly == [][IsPrefix(events, events')]_vars

C4_Witness ==
    /\ Len(events) >= 2
    /\ logOp.op = "current_version"

\* C5: current_version() is 0 on an empty log and otherwise the last event's
\* version; it equals the number of stored events, grows by exactly 1 on a
\* successful append and does not change on a failed append or on a read.
C5_CurrentVersionCountsEvents ==
    /\ current_version(events) = Len(events)
    /\ current_version(events) = StoredVersion(events)
    /\ logOp.op = "current_version" => logOp.ret = Len(events)
    /\ logOp.op = "append" =>
          current_version(events) =
              current_version(logOp.pre) + (IF logOp.ret = Ok THEN 1 ELSE 0)
    /\ logOp.op \in {"replay", "current_version"} =>
          current_version(events) = current_version(logOp.pre)

C5_Witness ==
    /\ logOp.op = "current_version"
    /\ logOp.ret = 2

\* C6: two callers that both read current_version = N and both append an
\* event with version N + 1: at most one append succeeds, the other fails
\* with VersionConflict, and an accepted event stays stored at version N + 1.
C6_OneWinner ==
    \A c1 \in Callers : \A c2 \in Callers \ {c1} :
        (pc[c1] = "done" /\ pc[c2] = "done" /\ observed[c1] = observed[c2])
            => /\ ~(outcome[c1].ret = Ok /\ outcome[c2].ret = Ok)
               /\ \A c \in {c1, c2} :
                     \/ /\ outcome[c].ret = Ok
                        /\ Len(events) > observed[c]
                        /\ events[observed[c] + 1] = outcome[c].event
                     \/ /\ outcome[c].ret.tag = "VersionConflict"
                        /\ outcome[c].ret.actual = observed[c] + 1

C6_Witness ==
    /\ pc["c1"] = "done" /\ pc["c2"] = "done"
    /\ observed["c1"] = 1 /\ observed["c2"] = 1
    /\ outcome["c2"].ret = Ok
    /\ outcome["c1"].ret = VersionConflict(3, 2)
    /\ outcome["c1"].event # outcome["c2"].event

(***************************************************************************)
(* Claims about the state machine                                          *)
(***************************************************************************)
MutationEvents == {"SchemaUpdated", "SnapshotAdded", "SnapshotRemoved"}

\* The transition table as the specification lists it: <<from, event, to>>.
TransitionTable ==
    {<<"Created", "TableCreated", "Active">>}
        \cup {<<"Active", e, "Mutating">> : e \in MutationEvents}
        \cup {<<"Mutating", e, "Active">> : e \in MutationEvents}

\* The pairs the table does not list.
UndeclaredPairs ==
    {<<"Created", "SchemaUpdated">>, <<"Created", "SnapshotAdded">>,
     <<"Created", "SnapshotRemoved">>, <<"Active", "TableCreated">>,
     <<"Mutating", "TableCreated">>}

Contains(s, sub) ==
    \E i \in 1..(Len(s) - Len(sub) + 1) : SubSeq(s, i, i + Len(sub) - 1) = sub

\* C7: the machine starts in Created, and each of the seven rows of the
\* transition table succeeds and leaves the machine in the row's target.
C7_TableRowsSucceed ==
    /\ smOp.op = "new" => state = "Created"
    /\ \A row \in TransitionTable :
          (smOp.op = "apply" /\ smOp.pre = row[1]
                /\ smOp.event.event_type = row[2])
              => (smOp.ret = Ok /\ state = row[3])

C7_Witness ==
    /\ smOp.op = "apply"
    /\ smOp.pre = "Mutating"
    /\ smOp.event.event_type = "SnapshotRemoved"
    /\ state = "Active"

\* C8: each of the five pairs outside the table fails with IllegalTransition,
\* the message names the rejected event type and the current state, and the
\* machine's state after the call is its state before it.
C8_UndeclaredPairsRejected ==
    /\ UndeclaredPairs =
          (TableState \X EventType) \ {<<row[1], row[2]>> : row \in TransitionTable}
    /\ \A pair \in UndeclaredPairs :
          (smOp.op = "apply" /\ smOp.pre = pair[1]
                /\ smOp.event.event_type = pair[2])
              => /\ smOp.ret.tag = "IllegalTransition"
                 /\ Contains(smOp.ret.message, pair[2])
                 /\ Contains(smOp.ret.message, "in " \o pair[1])
                 /\ state = smOp.pre

C8_Witness ==
    /\ smOp.op = "apply"
    /\ smOp.pre = "Active"
    /\ smOp.event.event_type = "TableCreated"
    /\ smOp.ret = IllegalTransition("cannot apply TableCreated while in Active")
    /\ state = "Active"

(***************************************************************************)
(* Claims about replay                                                     *)
(***************************************************************************)
\* The state the table gives after the first k events of log, "Illegal" once
\* an event is not in the table.
RECURSIVE TableFold(_, _)
TableFold(log, k) ==
    IF k = 0
    THEN "Created"
    ELSE LET before == TableFold(log, k - 1)
             rows == {row \in TransitionTable :
                          row[1] = before /\ row[2] = log[k].event_type}
         IN  IF rows = {} THEN "Illegal" ELSE (CHOOSE row \in rows : TRUE)[3]

\* No event is rejected: every event is a row of the table and every
\* registered rule passes on every transition.
NothingRejected(log, invs) ==
    \A k \in 1..Len(log) :
        /\ TableFold(log, k) # "Illegal"
        /\ \A i \in 1..Len(invs) :
              validate(invs[i], TableFold(log, k - 1), log[k], TableFold(log, k)) = Pass

\* C9: when no event is rejected, replay returns the fold of the transition
\* table over the events in log order from Created; Created for an empty log.
C9_ReplayFoldsTheTable ==
    (replayRet # None /\ NothingRejected(events, invariants))
        => /\ replayRet.ret = OkOf(TableFold(events, Len(events)))
           /\ events = <<>> => replayRet.ret = OkOf("Created")

\* The replay test: TableCreated, SchemaUpdated, SnapshotAdded under
\* NoMutateFromCreated gives Active.
C9_Witness ==
    /\ replayRet # None
    /\ Len(events) = 3
    /\ events[1].event_type = "TableCreated"
    /\ events[2].event_type = "SchemaUpdated"
    /\ events[3].event_type = "SnapshotAdded"
    /\ invariants = <<"NoMutateFromCreated">>
    /\ replayRet.ret = OkOf("Active")

\* C10: a second run of replay over the same events and the same ordered
\* rules returns what the run before it returned: the same final state, or
\* the same error at the same event.
C10_ReplayDeterministic ==
    (replayRet # None /\ replayRet.prev # None)
        => replayRet.prev.value = [ret |-> replayRet.ret, at |-> replayRet.at]

\* A second run that failed on a rule at the third event, as the first did.
C10_Witness ==
    /\ replayRet # None
    /\ replayRet.prev # None
    /\ replayRet.ret.tag = "Err"
    /\ replayRet.ret.kind = "Invariant"
    /\ replayRet.at = 3

\* The events replay must stop at: an event the table does not list for the
\* state reached, or a listed one on which a registered rule fails.
Offenders(log, invs) ==
    {k \in 1..Len(log) :
        \/ TableFold(log, k) = "Illegal"
        \/ \E i \in 1..Len(invs) :
              validate(invs[i], TableFold(log, k - 1), log[k], TableFold(log, k)) # Pass}

Least(set) == CHOOSE k \in set : \A j \in set : k <= j

\* C11: replay stops at the first offending event in log order and takes no
\* later event: the result is ReplayError::State when that event is an
\* illegal transition, ReplayError::Invariant when it is legal but a rule
\* fails on it, and never a TableState.
C11_ReplayHaltsAtFirstOffender ==
    Offenders(events, invariants) # {} =>
        LET first == Least(Offenders(events, invariants))
        IN  /\ pos <= first
            /\ replayRet # None =>
                  /\ replayRet.ret.tag = "Err"
                  /\ replayRet.at = first
                  /\ IF TableFold(events, first) = "Illegal"
                     THEN /\ replayRet.ret.kind = "State"
                          /\ replayRet.ret.source.tag = "IllegalTransition"
                     ELSE /\ replayRet.ret.kind = "Invariant"
                          /\ replayRet.ret.source.tag = "InvariantViolation"

\* A run stopped by a rule at the second of three events.
C11_Witness ==
    /\ replayRet # None
    /\ Len(events) = 3
    /\ replayRet.ret.tag = "Err"
    /\ replayRet.ret.kind = "Invariant"
    /\ replayRet.at = 2
    /\ pos = 2

\* C12: a log whose first event is SchemaUpdated, SnapshotAdded or
\* SnapshotRemoved fails at that event with an IllegalTransition naming
\* Created and the event type, whatever follows and whatever is registered.
C12_MutationFirstIsIllegal ==
    (replayRet # None /\ Len(events) > 0
            /\ events[1].event_type \in MutationEvents)
        => /\ replayRet.ret.tag = "Err"
           /\ replayRet.ret.kind = "State"
           /\ replayRet.ret.source.tag = "IllegalTransition"
           /\ Contains(replayRet.ret.source.message, events[1].event_type)
           /\ Contains(replayRet.ret.source.message, "in Created")
           /\ replayRet.at = 1

C12_Witness ==
    /\ replayRet # None
    /\ Len(events) >= 2
    /\ events[1].event_type = "SchemaUpdated"
    /\ Len(invariants) > 0
    /\ invariants[1] = "NoMutateFromCreated"
    /\ replayRet.ret =
          Err("State", IllegalTransition("cannot apply SchemaUpdated while in Created"))

(***************************************************************************)
(* Claims about the invariant engine                                       *)
(***************************************************************************)
\* The positions of the registered rules that fail on the last evaluated
\* triple.
FailingRules ==
    {i \in 1..Len(invariants) :
        validate(invariants[i], engineOp.previous_state, engineOp.event,
                 engineOp.next_state) # Pass}

\* C13: evaluate takes the rules in registration order and returns on the
\* first that fails, with that rule's name and reason; the rules registered
\* after it are not evaluated and do not decide the violation.
C13_FirstFailureWins ==
    engineOp.op = "evaluate" =>
        /\ IsPrefix(engineOp.validated, invariants)
        /\ FailingRules # {} =>
              LET first == Least(FailingRules)
              IN  /\ engineOp.ret =
                        InvariantViolation(
                            name(invariants[first]),
                            validate(invariants[first], engineOp.previous_state,
                                     engineOp.event, engineOp.next_state).reason)
                  /\ engineOp.validated = SubSeq(invariants, 1, first)

\* Two rules that both fail on the triple: the one registered first is named
\* and the other is not evaluated.
C13_Witness ==
    /\ engineOp.op = "evaluate"
    /\ invariants = <<"NoSnapshotRemoval", "NoReactivation">>
    /\ FailingRules = {1, 2}
    /\ engineOp.ret.invariant = "no-snapshot-removal"
    /\ engineOp.validated = <<"NoSnapshotRemoval">>

\* C14: evaluate returns Ok exactly when every registered rule passes on the
\* triple; an engine with no rule returns Ok for every triple.
C14_OkIffAllPass ==
    engineOp.op = "evaluate" =>
        /\ engineOp.ret = Ok <=> FailingRules = {}
        /\ invariants = <<>> => engineOp.ret = Ok

C14_Witness ==
    /\ engineOp.op = "evaluate"
    /\ invariants = <<>>
    /\ engineOp.previous_state = "Created"
    /\ engineOp.next_state = "Mutating"
    /\ engineOp.ret = Ok

(***************************************************************************)
(* Claims about drift detection                                            *)
(***************************************************************************)
\* The positions of the report's findings of one drift type.
FindingsOfType(rep, drift_type) ==
    {i \in 1..Len(rep.findings) : rep.findings[i].drift_type = drift_type}

\* C15: detect_drift on (Active, actual) with a snapshot id present gives
\* exactly one UnexpectedMutation finding, of severity Warning; on every
\* other input the report holds no UnexpectedMutation finding.
C15_UnexpectedMutationRule ==
    reportOp.op = "detect_drift" =>
        IF expected_state = "Active" /\ actual_state.current_snapshot_id # None
        THEN /\ Cardinality(FindingsOfType(report, "UnexpectedMutation")) = 1
             /\ \A i \in FindingsOfType(report, "UnexpectedMutation") :
                   report.findings[i].severity = "Warning"
        ELSE FindingsOfType(report, "UnexpectedMutation") = {}

\* The drift test: Active, a snapshot id, a valid schema id.
C15_Witness ==
    /\ reportOp.op = "detect_drift"
    /\ expected_state = "Active"
    /\ actual_state.current_snapshot_id = Some(42)
    /\ actual_state.current_schema_id = 1
    /\ Len(report.findings) = 1
    /\ report.findings[1].drift_type = "UnexpectedMutation"
    /\ report.findings[1].severity = "Warning"

\* C16: detect_drift reports one SchemaMismatch finding, of severity
\* Critical, exactly when the schema id is negative, for every expected
\* state and whether or not the UnexpectedMutation rule fires.
C16_SchemaMismatchRule ==
    reportOp.op = "detect_drift" =>
        IF actual_state.current_schema_id < 0
        THEN /\ Cardinality(FindingsOfType(report, "SchemaMismatch")) = 1
             /\ \A i \in FindingsOfType(report, "SchemaMismatch") :
                   report.findings[i].severity = "Critical"
        ELSE FindingsOfType(report, "SchemaMismatch") = {}

C16_Witness ==
    /\ reportOp.op = "detect_drift"
    /\ expected_state = "Mutating"
    /\ actual_state.current_snapshot_id = Some(0)
    /\ actual_state.current_schema_id = -2
    /\ Len(report.findings) = 1
    /\ report.findings[1].drift_type = "SchemaMismatch"
    /\ report.findings[1].severity = "Critical"

(***************************************************************************)
(* Claims about reports and policy evaluation                              *)
(***************************************************************************)
\* The total order on severities: Info < Warning < Critical.
SeverityBelow ==
    {<<"Info", "Warning">>, <<"Info", "Critical">>, <<"Warning", "Critical">>}

\* C17: highest_severity returns a severity of the report that none of its
\* findings exceeds in the order Info < Warning < Critical, and returns none
\* exactly when the report has no findings; is_clean holds exactly when the
\* report has no findings.
C17_HighestSeverityIsMaximum ==
    /\ reportOp.op = "highest_severity" =>
          /\ (reportOp.ret = None) <=> (Len(report.findings) = 0)
          /\ reportOp.ret # None =>
                /\ \E i \in 1..Len(report.findings) :
                      report.findings[i].severity = reportOp.ret.value
                /\ \A i \in 1..Len(report.findings) :
                      <<reportOp.ret.value, report.findings[i].severity>>
                          \notin SeverityBelow
    /\ reportOp.op = "is_clean" =>
          (reportOp.ret <=> (report.findings = <<>>))

\* The report of the drift test: Warning, then Critical, here followed by Info.
C17_Witness ==
    /\ reportOp.op = "highest_severity"
    /\ Len(report.findings) = 3
    /\ report.findings[1].severity = "Warning"
    /\ report.findings[2].severity = "Critical"
    /\ report.findings[3].severity = "Info"
    /\ reportOp.ret = Some("Critical")

\* C18: policy evaluation gives a plan as long as the report whose i-th
\* decision carries the severity of the i-th finding: one decision per
\* finding, in order, nothing merged; an empty report gives an empty plan.
C18_OneDecisionPerFinding ==
    reportOp.op = "evaluate_drift_policy" =>
        /\ Len(reportOp.ret.decisions) = Len(report.findings)
        /\ \A i \in 1..Len(report.findings) :
              reportOp.ret.decisions[i].severity = report.findings[i].severity
        /\ is_clean(report) => is_empty(reportOp.ret)

\* Two findings of one severity keep their two decisions.
C18_Witness ==
    /\ reportOp.op = "evaluate_drift_policy"
    /\ Len(report.findings) = 3
    /\ report.findings[1].severity = "Warning"
    /\ report.findings[2].severity = "Info"
    /\ report.findings[3].severity = "Warning"
    /\ Len(reportOp.ret.decisions) = 3
    /\ reportOp.ret.decisions[1].severity = "Warning"
    /\ reportOp.ret.decisions[2].severity = "Info"
    /\ reportOp.ret.decisions[3].severity = "Warning"

\* The mapping the specification gives for the default policy.
DefaultMapping ==
    [sev \in DriftSeverity |->
        CASE sev = "Info" -> "Observe"
          [] sev = "Warning" -> "Alert"
          [] sev = "Critical" -> "Enforce"]

\* C19: the built-in policy maps every Info finding to Observe, every
\* Warning finding to Alert and every Critical finding to Enforce, and the
\* configuration default_policy() returns has exactly one rule for each
\* severity, with the same mapping.
C19_DefaultPolicyMapping ==
    /\ reportOp.op = "evaluate_drift_policy" =>
          \A i \in 1..Len(report.findings) :
              /\ i \in DOMAIN reportOp.ret.decisions
              /\ reportOp.ret.decisions[i].action =
                     DefaultMapping[report.findings[i].severity]
    /\ reportOp.op = "default_policy" =>
          \A sev \in DriftSeverity :
              LET rules == {i \in DOMAIN reportOp.ret.rules :
                               reportOp.ret.rules[i].severity = sev}
              IN  /\ Cardinality(rules) = 1
                  /\ \A i \in rules :
                        reportOp.ret.rules[i].action = DefaultMapping[sev]

C19_Witness ==
    /\ reportOp.op = "evaluate_drift_policy"
    /\ Len(report.findings) = 3
    /\ report.findings[1].severity = "Info"
    /\ report.findings[2].severity = "Warning"
    /\ report.findings[3].severity = "Critical"
    /\ reportOp.ret.decisions[1].action = "Observe"
    /\ reportOp.ret.decisions[2].action = "Alert"
    /\ reportOp.ret.decisions[3].action = "Enforce"

(***************************************************************************)
(* Claims about the simulation pipeline                                    *)
(***************************************************************************)
\* C20: simulate_table returns either a complete result or one error, never
\* a partial result.  When replay fails (some event is an offender) it
\* returns the replay error and neither the report nor the plan has been
\* computed; when replay succeeds the result holds the replayed state, the
\* drift of that state against the catalog state, and the policy evaluation
\* of that report.  Nothing is returned before the pipeline has finished.
C20_CompleteResultOrOneError ==
    /\ simRet # None <=> simPc = "done"
    /\ simPc = "done" =>
          IF Offenders(events, invariants) # {}
          THEN /\ simRet.value.tag = "Err"
               /\ simRet.value.kind = "Replay"
               /\ simRet.value.source.tag = "Err"
               /\ simRet.value.source.kind \in {"State", "Invariant"}
               /\ simLocals = sim_locals
          ELSE /\ simRet.value.tag = "Ok"
               /\ DOMAIN simRet.value.value =
                      {"expected_state", "drift_report", "decision_plan"}
               /\ simRet.value.value.expected_state = TableFold(events, Len(events))
               /\ simRet.value.value.drift_report =
                      detect_drift(simRet.value.value.expected_state, actual_state)
               /\ simRet.value.value.decision_plan =
                      evaluate_drift_policy_with_config(
                          simRet.value.value.drift_report, policy)

\* A replay that fails on its second event, over a catalog state that would
\* have drifted: the error is returned and no report or plan exists.
C20_Witness ==
    /\ simPc = "done"
    /\ Len(events) = 2
    /\ events[1].event_type = "TableCreated"
    /\ events[2].event_type = "TableCreated"
    /\ actual_state.current_schema_id = -1
    /\ simRet.value.tag = "Err"
    /\ simRet.value.source.kind = "State"
    /\ simLocals.drift_report = None
    /\ simLocals.decision_plan = None

\* C21: when the pipeline's replayed state is not Active and the catalog's
\* schema id is not negative, the drift report of the result is clean and
\* its decision plan is empty, with the catalog's snapshot id absent or
\* present alike.
C21_NoDriftOutsideActive ==
    (/\ simPc = "done"
     /\ simRet.value.tag = "Ok"
     /\ simRet.value.value.expected_state # "Active"
     /\ actual_state.current_schema_id >= 0)
        => /\ is_clean(simRet.value.value.drift_report)
           /\ is_empty(simRet.value.value.decision_plan)

\* The pipeline test: [v1 TableCreated, v2 SchemaUpdated] under
\* NoMutateFromCreated, a catalog with snapshot 42 and schema 1.
C21_Witness ==
    /\ simPc = "done"
    /\ Len(events) = 2
    /\ events[1].event_type = "TableCreated"
    /\ events[2].event_type = "SchemaUpdated"
    /\ invariants = register(new_engine, "NoMutateFromCreated")
    /\ actual_state.current_snapshot_id = Some(42)
    /\ actual_state.current_schema_id = 1
    /\ policy = default_policy
    /\ simRet.value.tag = "Ok"
    /\ simRet.value.value.expected_state = "Mutating"
    /\ simRet.value.value.drift_report.findings = <<>>
    /\ simRet.value.value.decision_plan.decisions = <<>>

\* C22: with an empty log, a catalog whose schema id is -1 and the default
\* policy, the pipeline returns expected state Created, a report of exactly
\* one finding (SchemaMismatch, Critical) and a plan of exactly one decision,
\* whose action is Enforce.
C22_EmptyLogInvalidSchema ==
    (/\ simPc = "done"
     /\ events = <<>>
     /\ actual_state.current_schema_id = -1
     /\ policy = default_policy)
        => /\ simRet.value.tag = "Ok"
           /\ simRet.value.value.expected_state = "Created"
           /\ Len(simRet.value.value.drift_report.findings) = 1
           /\ simRet.value.value.drift_report.findings[1].drift_type = "SchemaMismatch"
           /\ simRet.value.value.drift_report.findings[1].severity = "Critical"
           /\ Len(simRet.value.value.decision_plan.decisions) = 1
           /\ simRet.value.value.decision_plan.decisions[1].action = "Enforce"

\* The scenario with a snapshot id present and a rule registered.
C22_Witness ==
    /\ simPc = "done"
    /\ events = <<>>
    /\ Len(invariants) = 1
    /\ actual_state.current_snapshot_id = Some(42)
    /\ actual_state.current_schema_id = -1
    /\ policy = default_policy
    /\ simRet.value.tag = "Ok"
    /\ simRet.value.value.expected_state = "Created"
    /\ Len(simRet.value.value.decision_plan.decisions) = 1
    /\ simRet.value.value.decision_plan.decisions[1].severity = "Critical"
    /\ simRet.value.value.decision_plan.decisions[1].action = "Enforce"

\* C23: no step of a run of the pipeline, its replay included, changes the
\* log: the stored events and current_version are after the step what they
\* were before it, whether the run succeeds or fails, so every later run
\* over the log reads the same events.
C23_PipelineLeavesLogUnchanged ==
    [][/\ events' = events
       /\ replay(events') = replay(events)
       /\ current_version(events') = current_version(events)]_vars

\* A second run has failed, as the first did, over a log that still holds
\* the two events that were appended to it.
C23_Witness ==
    /\ simRuns = 2
    /\ simPc = "done"
    /\ simRet.value.tag = "Err"
    /\ Len(appended) = 2
    /\ events = appended
    /\ current_version(events) = 2

(***************************************************************************)
(* Claims about the order of the two checks in replay                      *)
(***************************************************************************)
\* A registered rule fails on the event for some state it might lead to.
SomeRuleWouldFail(invs, previous, event) ==
    \E i \in 1..Len(invs), next \in TableState :
        validate(invs[i], previous, event, next) # Pass

\* C24: an event that is an illegal transition and on which a registered
\* rule would fail makes replay return ReplayError::State, not the rule's
\* violation; every triple replay passes to the engine is an entry of the
\* transition table; so a rule that fails only on Created -> Mutating is
\* never the one a replay reports.
C24_StateErrorBeforeInvariant ==
    /\ \A t \in evaluated :
          <<t.previous, t.event.event_type, t.next>> \in TransitionTable
    /\ replayRet # None =>
          /\ (/\ replayRet.ret.tag = "Err"
              /\ TableFold(events, replayRet.at) = "Illegal"
              /\ SomeRuleWouldFail(invariants,
                     TableFold(events, replayRet.at - 1), events[replayRet.at]))
                => /\ replayRet.ret.kind = "State"
                   /\ replayRet.ret.source.tag = "IllegalTransition"
          /\ (replayRet.ret.tag = "Err" /\ replayRet.ret.kind = "Invariant")
                => replayRet.ret.source.invariant # name("NoMutateFromCreated")

\* SchemaUpdated comes first, with NoMutateFromCreated registered after
\* another rule: the run stops there before any call of evaluate.
C24_Witness ==
    /\ replayRet # None
    /\ Len(events) = 2
    /\ events[1].event_type = "SchemaUpdated"
    /\ invariants = <<"NoSnapshotRemoval", "NoMutateFromCreated">>
    /\ replayRet.at = 1
    /\ replayRet.ret.tag = "Err"
    /\ replayRet.ret.kind = "State"
    /\ evaluated = {}

(***************************************************************************)
(* Claims about the shape of the lifecycle                                 *)
(***************************************************************************)
\* C25: with no rule registered, replay of a non-empty log succeeds exactly
\* when its first event is TableCreated and no later one is; the result is
\* then Active for an odd number of events and Mutating for an even number,
\* and it is never Created.
C25_ParityOfTheLog ==
    (replayRet # None /\ invariants = new_engine /\ Len(events) > 0) =>
        /\ (replayRet.ret.tag = "Ok") <=>
               /\ events[1].event_type = "TableCreated"
               /\ \A k \in 2..Len(events) : events[k].event_type # "TableCreated"
        /\ replayRet.ret.tag = "Ok" =>
               replayRet.ret.value =
                   IF Len(events) % 2 = 1 THEN "Active" ELSE "Mutating"
        /\ replayRet.ret # OkOf("Created")

\* Three events, the second and third both mutations: Active again.
C25_Witness ==
    /\ replayRet # None
    /\ invariants = new_engine
    /\ Len(events) = 3
    /\ events[1].event_type = "TableCreated"
    /\ events[2].event_type = "SnapshotAdded"
    /\ events[3].event_type = "SnapshotRemoved"
    /\ replayRet.ret = OkOf("Active")

\* C26: the machine has no terminal state: in each state it can be in,
\* Created, Active or Mutating, apply accepts at least one event type and
\* moves to another state of the machine.
C26_NoTerminalState ==
    /\ state \in TableState
    /\ \E evt \in EventType :
          \A event \in {e \in TableEvent : e.event_type = evt} :
              /\ apply(state, event).ret = Ok
              /\ apply(state, event).state \in TableState \ {state}

\* Mutating has been reached from Active; the table leads on from there.
C26_Witness ==
    /\ smOp.op = "apply"
    /\ smOp.pre = "Active"
    /\ smOp.ret = Ok
    /\ state = "Mutating"
    /\ apply(state, smOp.event).ret = Ok

(***************************************************************************)
(* Claims about the report detect_drift makes                              *)
(***************************************************************************)
\* C27: a report made by detect_drift holds at most two findings, at most
\* one from each rule; when both rules fire (expected Active, a snapshot id
\* present, a negative schema id) it is UnexpectedMutation/Warning followed
\* by SchemaMismatch/Critical, and its highest severity is Critical.
C27_AtMostOneFindingPerRule ==
    reportOp.op # "none" =>
        /\ Len(report.findings) <= 2
        /\ Cardinality(FindingsOfType(report, "UnexpectedMutation")) <= 1
        /\ Cardinality(FindingsOfType(report, "SchemaMismatch")) <= 1
        /\ FindingsOfType(report, "SnapshotMismatch") = {}
        /\ (/\ expected_state = "Active"
            /\ actual_state.current_snapshot_id # None
            /\ actual_state.current_schema_id < 0)
              => /\ Len(report.findings) = 2
                 /\ report.findings[1].drift_type = "UnexpectedMutation"
                 /\ report.findings[1].severity = "Warning"
                 /\ report.findings[2].drift_type = "SchemaMismatch"
                 /\ report.findings[2].severity = "Critical"
                 /\ reportOp.op = "highest_severity" => reportOp.ret = Some("Critical")

\* Both rules have fired and the report's highest severity has been read.
C27_Witness ==
    /\ reportOp.op = "highest_severity"
    /\ expected_state = "Active"
    /\ actual_state.current_snapshot_id = Some(42)
    /\ actual_state.current_schema_id = -1
    /\ Len(report.findings) = 2
    /\ reportOp.ret = Some("Critical")

=============================================================================
